---- MODULE Spec2Model ----
(***************************************************************************)
(* Model of the authentication and credential lifecycle of AuthService     *)
(* (src/src/auth/auth.service.ts) and of invoice payment marking in        *)
(* InvoicesService (src/src/invoices/invoices.service.ts).                 *)
(*                                                                         *)
(* Time is the wall clock in seconds.  Steps that happen with no Tick in   *)
(* between happen within the same second.                                  *)
(***************************************************************************)
EXTENDS Integers, Sequences, FiniteSets, TLC

\* ------------------------------------------------------------------ bounds
MaxTicks == 2
TickSeconds == 200
MaxUsers == 2
MaxRevoked == 2
MaxInvoices == 2
MaxCredits == 2

\* ------------------------------------------------------- program constants
\* totp.options = { digits: 6, step: 300 }
OtpStep == 300
\* this.cache.set(otpKey, otp, 300)
OtpTtl == 300

MaxTime == MaxTicks * TickSeconds

\* ------------------------------------------------------------------ inputs
SignupEmails == {"a@x.com", "b@x.com"}
Emails == SignupEmails \cup {"A@x.com", "not-an-email"}
\* signup passwords and new passwords of resetPassword; "" is a missing password
Passwords == {"", "p1"}
NewPasswords == {"", "p2"}
UserIds == 1..MaxUsers
\* two concurrent signin calls
Procs == {1, 2}
\* invoice amounts
Amounts == {100, 250}

VARIABLES
    users,      \* credential store: sequence of records, a record's id is its index
    otpCache,   \* cache keys "<userId>:otp": userId -> [value, expiresAt]
    revoked,    \* cache set 'revokedToken'
    now,        \* wall clock, seconds
    lastRT,     \* history: per user, the refresh token returned by its latest signin
    session,    \* history: per user, "none", "in" (signin was last) or "out" (signout was last)
    otpHist,    \* history: per user, the OTP returned by its latest forgotPassword
    revokedHist,\* history: the ids ever passed to revokeToken
    last,       \* the latest call: operation, arguments, result
    pc,         \* concurrent signin calls: each call's position
    ptok,       \* concurrent signin calls: the refresh token the call was issued
    phash,      \* concurrent signin calls: the hash the call computed
    lastWriter, \* history: the call that wrote the user's refresh-token hash last
    invoices,   \* invoice repository: sequence of records, a record's id is its index
    transactions,\* transaction status per invoice
    wallet,     \* wallet balance of the invoices' user
    paidRefs,   \* payment provider: the references whose payment went through
    credits     \* history: per invoice, how many times the wallet was credited for it

concVars == <<pc, ptok, phash, lastWriter>>
invVars == <<invoices, transactions, wallet, paidRefs, credits>>
vars == <<users, otpCache, revoked, now, lastRT, session, otpHist, revokedHist, last,
          concVars, invVars>>

\* ------------------------------------------------------------------ values
NullHash == [alg |-> "null", data |-> <<>>]
NoToken == [typ |-> "none", sub |-> 0, iat |-> 0]
EmptyToken == [typ |-> "empty", sub |-> 0, iat |-> 0]
GarbageToken == [typ |-> "garbage", sub |-> 0, iat |-> 0]
NoOtp == [code |-> -1, issuedAt |-> 0, consumed |-> FALSE]

\* jwtService.signAsync(payload, options): the token is a function of the
\* payload {sub, role}, the issue second (iat), and the secret/expiry of its type.
Sign(sub, typ, t) == [typ |-> typ, sub |-> sub, iat |-> t]

\* getTokens(user): <<accessToken, refreshToken>>
getTokens(id, t) == <<Sign(id, "access", t), Sign(id, "refresh", t)>>

\* jwtService.decode(token): the payload's sub, 0 for a string that is no JWT.
\* The signature and the expiry are not verified.
Decode(tok) == IF tok.typ \in {"access", "refresh"} THEN tok.sub ELSE 0

\* bcrypt reads the first 72 bytes of its input.  A JWT starts with the fixed
\* 36-character header, a dot, and the beginning of the payload
\* {"sub":"<user id>",...: its first 72 bytes hold the header and the head of
\* the subject, and neither iat, exp nor the signature.  The ids of distinct
\* users differ within that head.
Truncate72Jwt(tok) ==
    IF tok.typ \in {"access", "refresh"} THEN <<"jwt", tok.sub>> ELSE <<tok.typ>>

\* bcrypt.hash(refreshToken, 10); the random salt, which compare undoes, is left out
BcryptHashToken(tok) == [alg |-> "bcrypt", data |-> Truncate72Jwt(tok)]

\* bcrypt.compare(refreshToken, user.refreshToken): throws on a null hash,
\* which the caller's catch turns into the same rejection as a mismatch
BcryptCompareToken(tok, hash) ==
    /\ hash.alg = "bcrypt"
    /\ hash.data = Truncate72Jwt(tok)

\* hashPassword(password): if (!password) throw new Error(...)
hashPasswordThrows(pw) == pw = ""

\* hashPassword(password), for a non-empty password (shorter than 72 bytes)
hashPassword(pw) == [alg |-> "bcrypt", data |-> pw]

\* comparePassword(password, hashedPassword)
comparePassword(pw, hash) == hash.alg = "bcrypt" /\ hash.data = pw

\* validateEmail: '^[a-z0-9._%+-]+@[a-z0-9.-]+\.[a-z]{2,4}$' on the enumerated inputs
validateEmail(email) == email \in {"a@x.com", "b@x.com"}

\* email.toLowerCase() on the enumerated inputs
ToLowerCase(email) == IF email = "A@x.com" THEN "a@x.com" ELSE email

\* totp.generate(secret) at second t: the code of time step floor(t / step),
\* the same for every caller
TotpGenerate(t) == t \div OtpStep

\* totp.check(otp, secret) at second t (window 0)
TotpCheck(otp, t) == otp = TotpGenerate(t)

Otps == {TotpGenerate(t) : t \in 0..(MaxTime + OtpStep)}

\* ------------------------------------------------------- credential store
\* usersService.findByEmail(email): the record's id, 0 when absent
findByEmail(us, email) ==
    IF \E i \in 1..Len(us) : us[i].email = email
    THEN CHOOSE i \in 1..Len(us) : us[i].email = email
    ELSE 0

\* usersService.findOne(id): the record's id, 0 when absent
findOne(us, id) == IF id \in 1..Len(us) THEN id ELSE 0

\* usersService.create(user)
CreateUser(us, email, pwHash) ==
    Append(us, [email |-> email, password |-> pwHash, refreshToken |-> NullHash])

\* usersService.update(id, { refreshToken })
UpdateRefreshToken(us, id, hash) == [us EXCEPT ![id].refreshToken = hash]

\* usersService.update(id, { password })
UpdatePassword(us, id, hash) == [us EXCEPT ![id].password = hash]

\* ------------------------------------------------------------------ cache
\* cache.exists(key)
CacheExists(c, id, t) == id \in DOMAIN c /\ t < c[id].expiresAt

\* cache.get(key): {} for null, {value} otherwise
CacheGet(c, id, t) == IF CacheExists(c, id, t) THEN {c[id].value} ELSE {}

\* cache.del(key)
CacheDel(c, id) == [k \in DOMAIN c \ {id} |-> c[k]]

\* cache.set(key, value, ttl)
CacheSet(c, id, v, ttl, t) ==
    [k \in DOMAIN c \cup {id} |->
        IF k = id THEN [value |-> v, expiresAt |-> t + ttl] ELSE c[k]]

\* expiry of keys by the cache itself as time passes
CacheExpire(c, t) == [k \in {x \in DOMAIN c : t < c[x].expiresAt} |-> c[k]]

\* cache.sadd('revokedToken', tokenId)
sadd(s, x) == s \cup {x}

\* cache.sismember('revokedToken', tokenId)
sismember(s, x) == x \in s

\* ---------------------------------------------------------------- results
NoUser == [email |-> "", password |-> [alg |-> "undefined", data |-> ""],
           refreshToken |-> NullHash]

Call(op, email, uid, tok, otp, pw, res) ==
    [op |-> op, email |-> email, uid |-> uid, tok |-> tok, otp |-> otp,
     pw |-> pw, res |-> res, ret |-> NoUser]

Init ==
    /\ users = <<>>
    /\ otpCache = <<>>
    /\ revoked = {}
    /\ now = 0
    /\ lastRT = [u \in UserIds |-> NoToken]
    /\ session = [u \in UserIds |-> "none"]
    /\ otpHist = [u \in UserIds |-> NoOtp]
    /\ revokedHist = {}
    /\ last = Call("init", "", 0, NoToken, -1, "", "ok")
    /\ pc = [p \in Procs |-> "start"]
    /\ ptok = [p \in Procs |-> NoToken]
    /\ phash = [p \in Procs |-> NullHash]
    /\ lastWriter = 0
    /\ invoices = <<>>
    /\ transactions = <<>>
    /\ wallet = 0
    /\ paidRefs = {}
    /\ credits = <<>>

\* the clock advances; expired cache keys disappear
Tick ==
    /\ now + TickSeconds <= MaxTime
    /\ now' = now + TickSeconds
    /\ otpCache' = CacheExpire(otpCache, now')
    /\ last' = Call("tick", "", 0, NoToken, -1, "", "ok")
    /\ UNCHANGED <<users, revoked, lastRT, session, otpHist, revokedHist>>
    /\ UNCHANGED <<concVars, invVars>>

\* ----------------------------------------------------------------- signup
\* signup that does not look the email up
SignupResult_NoLookup(us, email, pw) ==
    IF hashPasswordThrows(pw) THEN "Error" ELSE "ok"

SignupResult(us, email, pw) ==
    IF findByEmail(us, email) # 0 THEN "ConflictException"
    ELSE IF hashPasswordThrows(pw) THEN "Error"
    ELSE "ok"

\* the store after signup(user)
SignupStore(us, email, pw) ==
    IF SignupResult(us, email, pw) = "ok"
    THEN CreateUser(us, email, hashPassword(pw))
    ELSE us

\* what signup(user) returns: the created record, newUser.password = undefined
SignupReturn(us, email, pw) ==
    IF SignupResult(us, email, pw) = "ok"
    THEN [SignupStore(us, email, pw)[Len(us) + 1]
             EXCEPT !.password = [alg |-> "undefined", data |-> ""]]
    ELSE NoUser

signup(email, pw) ==
    /\ Len(users) < MaxUsers \/ SignupResult(users, email, pw) # "ok"
    /\ users' = SignupStore(users, email, pw)
    /\ last' = [Call("signup", email, findByEmail(users', email), NoToken, -1, pw,
                     SignupResult(users, email, pw))
                  EXCEPT !.ret = SignupReturn(users, email, pw)]
    /\ UNCHANGED <<otpCache, revoked, now, lastRT, session, otpHist, revokedHist>>
    /\ UNCHANGED <<concVars, invVars>>

\* ----------------------------------------------------------------- signin
\* setCurrentRefreshToken(refreshToken, userId): the store after it
setCurrentRefreshToken(us, tok, id) == UpdateRefreshToken(us, id, BcryptHashToken(tok))

\* signin(user), user a record of the store (the caller got it from validateUser)
signin(id) ==
    /\ id \in 1..Len(users)
    /\ LET tokens == getTokens(id, now) IN
        /\ users' = setCurrentRefreshToken(users, tokens[2], id)
        /\ lastRT' = [lastRT EXCEPT ![id] = tokens[2]]
        /\ session' = [session EXCEPT ![id] = "in"]
        \* last.tok: the refresh token the previous signin of this user returned
        /\ last' = Call("signin", "", id, lastRT[id], -1, "", "ok")
    /\ UNCHANGED <<otpCache, revoked, now, otpHist, revokedHist>>
    /\ UNCHANGED <<concVars, invVars>>

\* -------------------------------------------------- revocation and refresh
\* revokeToken that overwrites the set with the one id
RevokeTokenSet_Overwrite(s, tok) == {tok}

\* revokeToken(tokenId): the revoked set after it
RevokeTokenSet(s, tok) == sadd(s, tok)

\* isTokenRevoked(tokenId)
isTokenRevoked(s, tok) == sismember(s, tok)

\* the tokens a caller holds: the access token of each user's latest signin
HeldAccessTokens == {Sign(u, "access", lastRT[u].iat) : u \in {x \in UserIds : lastRT[x] # NoToken}}

revokeToken(tok) ==
    /\ Cardinality(revoked) < MaxRevoked
    /\ revoked' = RevokeTokenSet(revoked, tok)
    /\ revokedHist' = revokedHist \cup {tok}
    /\ last' = Call("revokeToken", "", 0, tok, -1, "", "ok")
    /\ UNCHANGED <<users, otpCache, now, lastRT, session, otpHist>>
    /\ UNCHANGED <<concVars, invVars>>

\* createAccessTokenFromRefreshToken(refreshToken): every failure inside the
\* try block, thrown or raised by a callee, leaves as NotFoundException
RefreshResult(us, tok) ==
    IF Decode(tok) = 0 THEN "NotFoundException"
    ELSE IF findOne(us, Decode(tok)) = 0 THEN "NotFoundException"
    ELSE IF ~BcryptCompareToken(tok, us[findOne(us, Decode(tok))].refreshToken)
         THEN "NotFoundException"
    ELSE "ok"

createAccessTokenFromRefreshToken(tok) ==
    /\ last' = Call("refresh", "", Decode(tok), tok, -1, "", RefreshResult(users, tok))
    /\ UNCHANGED <<users, otpCache, revoked, now, lastRT, session, otpHist, revokedHist>>
    /\ UNCHANGED <<concVars, invVars>>

\* the refresh tokens presented in the model: a string that is no JWT, each
\* user's latest and previous refresh token, and a decodable token per user id
RefreshInputs ==
    {GarbageToken} \cup {lastRT[u] : u \in UserIds} \cup {last.tok}
        \cup {Sign(u, "refresh", 0) : u \in UserIds}

\* ---------------------------------------------------------------- signout
\* what the try block of signout throws: "none" when it runs to its end
SignoutThrown(uid, tok) ==
    IF uid = 0 \/ tok = EmptyToken THEN "NotFoundException" ELSE "none"

\* what signout's caller sees: the catch replaces whatever was thrown
SignoutResult(uid, tok) ==
    IF SignoutThrown(uid, tok) = "none" THEN "ok" ELSE "InternalServerErrorException"

\* signout that leaves the stored refresh-token hash in place
SignoutStore_Keep(us, uid) == us

\* usersService.update(user.id, { refreshToken: null })
SignoutStore(us, uid) == UpdateRefreshToken(us, uid, NullHash)

\* signout(reqUser, token): uid = 0 is a request without a user, EmptyToken
\* a request without a token
signout(uid, tok) ==
    /\ uid \in 0..Len(users)
    /\ Cardinality(revoked) < MaxRevoked \/ SignoutResult(uid, tok) # "ok"
    /\ IF SignoutResult(uid, tok) = "ok"
       THEN /\ users' = SignoutStore(users, uid)
            /\ revoked' = RevokeTokenSet(revoked, tok)
            /\ revokedHist' = revokedHist \cup {tok}
            /\ session' = [session EXCEPT ![uid] = "out"]
       ELSE UNCHANGED <<users, revoked, revokedHist, session>>
    /\ last' = Call("signout", "", uid, tok, -1, "", SignoutResult(uid, tok))
    /\ UNCHANGED <<otpCache, now, lastRT, otpHist>>
    /\ UNCHANGED <<concVars, invVars>>

\* --------------------------------------------------------- forgotPassword
\* generateResetPasswordOtp()
generateResetPasswordOtp(t) == TotpGenerate(t)

ForgotResult(us, email) ==
    IF ~validateEmail(email) THEN "NotFoundException"
    ELSE IF findByEmail(us, ToLowerCase(email)) = 0 THEN "NotFoundException"
    ELSE "ok"

\* the cache after forgotPassword stored otp for user id at second t
ForgotCache(c, id, otp, t) ==
    CacheSet(IF CacheExists(c, id, t) THEN CacheDel(c, id) ELSE c, id, otp, OtpTtl, t)

forgotPassword(email) ==
    LET res == ForgotResult(users, email)
        id == findByEmail(users, ToLowerCase(email))
        otp == generateResetPasswordOtp(now)
    IN  /\ IF res = "ok"
           THEN /\ otpCache' = ForgotCache(otpCache, id, otp, now)
                /\ otpHist' = [otpHist EXCEPT ![id] =
                                  [code |-> otp, issuedAt |-> now, consumed |-> FALSE]]
                /\ last' = Call("forgotPassword", email, id, NoToken, otp, "", res)
           ELSE /\ UNCHANGED <<otpCache, otpHist>>
                /\ last' = Call("forgotPassword", email, 0, NoToken, -1, "", res)
        /\ UNCHANGED <<users, revoked, now, lastRT, session, revokedHist>>
        /\ UNCHANGED <<concVars, invVars>>

\* ---------------------------------------------------------- resetPassword
\* verifyResetPasswordOtp(otp, userId): does it return without throwing
verifyResetPasswordOtp(c, t, otp, id) ==
    /\ TotpCheck(otp, t)
    /\ CacheGet(c, id, t) = {otp}

\* verifyResetPasswordOtp that does not delete the key
VerifiedCache_Keep(c, id) == c

\* the cache after a verifyResetPasswordOtp that did not throw
VerifiedCache(c, id) == CacheDel(c, id)

ResetResult(us, c, t, email, otp, pw) ==
    IF ~validateEmail(email) THEN "NotFoundException"
    \* user.id of a null user
    ELSE IF findByEmail(us, ToLowerCase(email)) = 0 THEN "TypeError"
    ELSE IF ~verifyResetPasswordOtp(c, t, otp, findByEmail(us, ToLowerCase(email)))
         THEN "NotFoundException"
    \* hashPassword: 'Password is required for hashing.'
    ELSE IF hashPasswordThrows(pw) THEN "Error"
    ELSE "ok"

\* the cache after resetPassword
ResetCache(us, c, t, email, otp, pw) ==
    IF ResetResult(us, c, t, email, otp, pw) \in {"ok", "Error"}
    THEN VerifiedCache(c, findByEmail(us, ToLowerCase(email)))
    ELSE c

\* the store after resetPassword
ResetStore(us, c, t, email, otp, pw) ==
    IF ResetResult(us, c, t, email, otp, pw) = "ok"
    THEN UpdatePassword(us, findByEmail(us, ToLowerCase(email)), hashPassword(pw))
    ELSE us

resetPassword(email, otp, pw) ==
    LET res == ResetResult(users, otpCache, now, email, otp, pw)
        id == IF validateEmail(email) THEN findByEmail(users, ToLowerCase(email)) ELSE 0
    IN  /\ users' = ResetStore(users, otpCache, now, email, otp, pw)
        /\ otpCache' = ResetCache(users, otpCache, now, email, otp, pw)
        /\ otpHist' = IF res = "ok"
                      THEN [otpHist EXCEPT ![id].consumed = TRUE]
                      ELSE otpHist
        /\ last' = Call("resetPassword", email, id, NoToken, otp, pw, res)
        /\ UNCHANGED <<revoked, now, lastRT, session, revokedHist>>
        /\ UNCHANGED <<concVars, invVars>>

\* sessions: signup, signin, signout, refresh and revocation
NextSession ==
    \/ Tick
    \/ \E e \in SignupEmails, pw \in Passwords : signup(e, pw)
    \/ \E id \in UserIds : signin(id)
    \/ \E id \in 0..MaxUsers, tok \in HeldAccessTokens \cup {EmptyToken} : signout(id, tok)
    \/ \E tok \in HeldAccessTokens : revokeToken(tok)
    \/ \E tok \in RefreshInputs : createAccessTokenFromRefreshToken(tok)

SpecSession == Init /\ [][NextSession]_vars

\* password reset: signup, forgotPassword and resetPassword
NextOtp ==
    \/ Tick
    \/ \E e \in SignupEmails, pw \in Passwords : signup(e, pw)
    \/ \E e \in Emails : forgotPassword(e)
    \/ \E e \in Emails, otp \in Otps, pw \in NewPasswords : resetPassword(e, otp, pw)

SpecOtp == Init /\ [][NextOtp]_vars

\* every operation of the auth service, for the single user "a@x.com"
NextOneUser ==
    \/ Tick
    \/ \E pw \in Passwords : signup("a@x.com", pw)
    \/ signin(1)
    \/ \E id \in 0..1, tok \in HeldAccessTokens \cup {EmptyToken} : signout(id, tok)
    \/ \E tok \in HeldAccessTokens : revokeToken(tok)
    \/ \E tok \in RefreshInputs : createAccessTokenFromRefreshToken(tok)
    \/ \E e \in {"a@x.com", "not-an-email"} : forgotPassword(e)
    \/ \E otp \in Otps, pw \in NewPasswords : resetPassword("a@x.com", otp, pw)

SpecOneUser == Init /\ [][NextOneUser]_vars

\* ------------------------------------------------ concurrent signin calls
\* Two signin calls for user 1 run concurrently.  A call yields at each await:
\* after getTokens (signAsync), after bcrypt.hash, and after usersService.update.

\* signin line 47: const [accessToken, refreshToken] = await this.getTokens(user)
SigninGetTokens(p) ==
    /\ pc[p] = "start"
    /\ findOne(users, 1) # 0
    /\ ptok' = [ptok EXCEPT ![p] = getTokens(1, now)[2]]
    /\ pc' = [pc EXCEPT ![p] = "signed"]
    /\ UNCHANGED <<users, now, phash, lastWriter, last>>
    /\ UNCHANGED <<otpCache, revoked, lastRT, session, otpHist, revokedHist, invVars>>

\* setCurrentRefreshToken line 180: await bcrypt.hash(refreshToken, 10)
SigninHash(p) ==
    /\ pc[p] = "signed"
    /\ phash' = [phash EXCEPT ![p] = BcryptHashToken(ptok[p])]
    /\ pc' = [pc EXCEPT ![p] = "hashed"]
    /\ UNCHANGED <<users, now, ptok, lastWriter, last>>
    /\ UNCHANGED <<otpCache, revoked, lastRT, session, otpHist, revokedHist, invVars>>

\* setCurrentRefreshToken line 183: await this.usersService.update(userId, updatedUser)
SigninUpdate(p) ==
    /\ pc[p] = "hashed"
    /\ users' = UpdateRefreshToken(users, 1, phash[p])
    /\ lastWriter' = p
    /\ pc' = [pc EXCEPT ![p] = "done"]
    /\ UNCHANGED <<now, ptok, phash, last>>
    /\ UNCHANGED <<otpCache, revoked, lastRT, session, otpHist, revokedHist, invVars>>

NextConc ==
    \/ Tick
    \/ \E pw \in Passwords : signup("a@x.com", pw)
    \/ \E p \in Procs : SigninGetTokens(p)
    \/ \E p \in Procs : SigninHash(p)
    \/ \E p \in Procs : SigninUpdate(p)

SpecConc == Init /\ [][NextConc]_vars

\* --------------------------------------------------------------- invoices
\* invoiceRepository.findOne({ where: { id } }): the record's id, 0 when absent
getInvoiceDetails(inv, id) == IF id \in 1..Len(inv) THEN id ELSE 0

\* createInvoice(dto, userId, clientId); clientOk: getClientByIdAndUserId found
\* the client
createInvoice(amount, clientOk) ==
    /\ Len(invoices) < MaxInvoices
    /\ IF clientOk
       THEN /\ invoices' = Append(invoices,
                   [status |-> "unpaid", amount |-> amount, paymentReference |-> 0])
            /\ transactions' = Append(transactions, "pending")
            /\ credits' = Append(credits, 0)
            /\ last' = Call("createInvoice", "", Len(invoices) + 1, NoToken, -1, "", "ok")
       ELSE /\ UNCHANGED <<invoices, transactions, credits>>
            /\ last' = Call("createInvoice", "", 0, NoToken, -1, "", "HttpException")
    /\ UNCHANGED <<wallet, paidRefs>>
    /\ UNCHANGED <<users, otpCache, revoked, now, lastRT, session, otpHist, revokedHist, concVars>>

\* generatePaystackLink(invoiceId): an invoice without a reference gets the
\* reference of the payment it initiates (the reference of invoice i is i)
generatePaystackLink(id) ==
    /\ IF getInvoiceDetails(invoices, id) = 0
       THEN /\ UNCHANGED invoices
            /\ last' = Call("generatePaystackLink", "", id, NoToken, -1, "", "NotFoundException")
       ELSE /\ invoices' = IF invoices[id].paymentReference # 0 THEN invoices
                           ELSE [invoices EXCEPT ![id].paymentReference = id]
            /\ last' = Call("generatePaystackLink", "", id, NoToken, -1, "", "ok")
    /\ UNCHANGED <<transactions, wallet, paidRefs, credits>>
    /\ UNCHANGED <<users, otpCache, revoked, now, lastRT, session, otpHist, revokedHist, concVars>>

\* the payer completes the payment of a reference at the payment provider
PayerPays(ref) ==
    /\ ref \in 1..Len(invoices)
    /\ invoices[ref].paymentReference = ref
    /\ ref \notin paidRefs
    /\ paidRefs' = paidRefs \cup {ref}
    /\ last' = Call("payerPays", "", ref, NoToken, -1, "", "ok")
    /\ UNCHANGED <<invoices, transactions, wallet, credits>>
    /\ UNCHANGED <<users, otpCache, revoked, now, lastRT, session, otpHist, revokedHist, concVars>>

\* paystackService.verifyPayment(reference).data.status
verifyPayment(paid, ref) == IF ref \in paid THEN "success" ELSE "failed"

\* paystackService.verifyPayment(reference).data.amount: the amount the
\* payment was initiated with, the invoice's
VerifiedAmount(inv, id) == inv[id].amount

MarkResult(inv, paid, id) ==
    IF getInvoiceDetails(inv, id) = 0 THEN "NotFoundException"
    ELSE IF verifyPayment(paid, inv[id].paymentReference) = "success" THEN "ok"
    ELSE "HttpException"

\* walletService.updateWalletBalance(userId, amount)
updateWalletBalance(w, amount) == w + amount

\* the wallet after markInvoiceAsPaid(invoiceId)
MarkWallet(inv, paid, w, id) ==
    IF MarkResult(inv, paid, id) = "ok"
    THEN updateWalletBalance(w, VerifiedAmount(inv, id))
    ELSE w

\* the invoice repository after markInvoiceAsPaid(invoiceId)
MarkInvoices(inv, paid, id) ==
    IF MarkResult(inv, paid, id) = "ok"
    THEN [inv EXCEPT ![id].status = "paid",
                     ![id].paymentReference = inv[id].paymentReference,
                     ![id].amount = VerifiedAmount(inv, id)]
    ELSE inv

\* markInvoiceAsPaid(invoiceId)
markInvoiceAsPaid(id) ==
    /\ id \in 1..Len(invoices) => credits[id] < MaxCredits
    /\ invoices' = MarkInvoices(invoices, paidRefs, id)
    /\ wallet' = MarkWallet(invoices, paidRefs, wallet, id)
    /\ IF MarkResult(invoices, paidRefs, id) = "ok"
       THEN /\ transactions' = [transactions EXCEPT ![id] = "success"]
            /\ credits' = [credits EXCEPT ![id] = @ + 1]
       ELSE UNCHANGED <<transactions, credits>>
    /\ last' = Call("markInvoiceAsPaid", "", id, NoToken, -1, "",
                    MarkResult(invoices, paidRefs, id))
    /\ UNCHANGED paidRefs
    /\ UNCHANGED <<users, otpCache, revoked, now, lastRT, session, otpHist, revokedHist, concVars>>

NextInvoices ==
    \/ \E a \in Amounts, ok \in BOOLEAN : createInvoice(a, ok)
    \/ \E id \in 1..MaxInvoices : generatePaystackLink(id)
    \/ \E ref \in 1..MaxInvoices : PayerPays(ref)
    \/ \E id \in 1..MaxInvoices : markInvoiceAsPaid(id)

SpecInvoices == Init /\ [][NextInvoices]_vars

\* ================================================================= claims
Times == {k * TickSeconds : k \in 0..MaxTicks}
JwtsOf(u) == {Sign(u, typ, t) : typ \in {"access", "refresh"}, t \in Times}

\* C1 (as claimed): after a second signin of a user the two refresh tokens
\* differ, the earlier one is rejected by createAccessTokenFromRefreshToken
\* and the later one is accepted.
C1_SupersededRejected ==
    (last.op = "signin" /\ last.tok # NoToken) =>
        /\ lastRT[last.uid] # last.tok
        /\ RefreshResult(users, last.tok) = "NotFoundException"
        /\ RefreshResult(users, lastRT[last.uid]) = "ok"

\* C3 (as claimed): signout without a user or without a token fails with
\* NotFoundException and changes neither the store nor the revoked set.
C3_SignoutNotFound ==
    [][(last'.op = "signout" /\ (last'.uid = 0 \/ last'.tok = EmptyToken)) =>
        /\ last'.res = "NotFoundException"
        /\ users' = users
        /\ revoked' = revoked]_vars

\* C4 (as claimed): resetPassword with a well-formed email that has no record
\* fails with NotFoundException and changes neither the store nor the cache.
C4_ResetUnknownUser ==
    [][(/\ last'.op = "resetPassword"
        /\ validateEmail(last'.email)
        /\ findByEmail(users, ToLowerCase(last'.email)) = 0) =>
        /\ last'.res = "NotFoundException"
        /\ users' = users
        /\ otpCache' = otpCache]_vars

\* no two credential records share an email
UniqueEmails(us) == \A i, j \in 1..Len(us) : us[i].email = us[j].email => i = j

\* what a signup with an email already present does
SignupConflict ==
    /\ last'.res = "ConflictException"
    /\ users' = users

\* what a successful signup does: one record more, holding the bcrypt hash of
\* the password, and the returned user has no password
SignupCreates ==
    /\ last'.res = "ok"
    /\ Len(users') = Len(users) + 1
    /\ SubSeq(users', 1, Len(users)) = users
    /\ users'[Len(users')].email = last'.email
    /\ users'[Len(users')].password.alg = "bcrypt"
    /\ comparePassword(last'.pw, users'[Len(users')].password)
    /\ last'.ret.email = last'.email
    /\ last'.ret.password.alg = "undefined"

\* C5 (as claimed): signup with an email already present fails with
\* ConflictException and leaves the store unchanged; signup with any other
\* email creates exactly one record, with the hashed password, and returns the
\* user without a password; no two records share an email.
C5_SignupAnyPassword ==
    /\ [][last'.op = "signup" =>
            IF findByEmail(users, last'.email) # 0 THEN SignupConflict
            ELSE SignupCreates]_vars
    /\ [](UniqueEmails(users))

\* C5 (amended): as C5, where the signup of a new email creates the record
\* when the password is not empty, and otherwise fails in hashPassword and
\* leaves the store unchanged.
C5_SignupNonEmptyPassword ==
    /\ [][last'.op = "signup" =>
            IF findByEmail(users, last'.email) # 0 THEN SignupConflict
            ELSE IF last'.pw # "" THEN SignupCreates
            ELSE last'.res = "Error" /\ users' = users]_vars
    /\ [](UniqueEmails(users))

C5_Witness ==
    /\ last.op = "signup"
    /\ last.res = "ConflictException"
    /\ Len(users) = 2

\* C6: after a signout that returned, the user's stored refresh-token hash is
\* null and the presented access token is revoked; and as long as no signin
\* of the user follows, every refresh token of the user is rejected.
C6_SignoutInvalidates ==
    /\ [][(last'.op = "signout" /\ last'.res = "ok") =>
            /\ users'[last'.uid].refreshToken = NullHash
            /\ isTokenRevoked(revoked', last'.tok)]_vars
    /\ [](\A u \in 1..Len(users) : session[u] = "out" =>
            /\ users[u].refreshToken = NullHash
            /\ \A tok \in JwtsOf(u) \cup {lastRT[u]} :
                   RefreshResult(users, tok) = "NotFoundException")

C6_Witness ==
    /\ last.op = "refresh"
    /\ last.res = "NotFoundException"
    /\ last.uid \in 1..Len(users)
    /\ session[last.uid] = "out"
    /\ last.tok = lastRT[last.uid]
    /\ last.tok # NoToken

\* C7: an id is revoked exactly when it was passed to revokeToken (directly or
\* by a signout that returned), and no operation takes an id out of the
\* revoked set.
C7_RevocationMonotonic ==
    /\ [](\A tok \in revokedHist \cup HeldAccessTokens \cup {EmptyToken, GarbageToken} :
            isTokenRevoked(revoked, tok) <=> tok \in revokedHist)
    /\ [][\A tok \in revoked : isTokenRevoked(revoked', tok)]_vars

C7_Witness ==
    /\ Cardinality(revoked) = 2
    /\ last.op = "resetPassword"
    /\ last.res = "ok"
    /\ \E tok \in HeldAccessTokens : ~isTokenRevoked(revoked, tok)

\* C8 (as claimed): the code forgotPassword returned for a user V is rejected
\* by resetPassword for every other user U.
C8_OtpBoundToUser ==
    \A u, v \in 1..Len(users) :
        (u # v /\ otpHist[v] # NoOtp) =>
            \A pw \in NewPasswords :
                ResetResult(users, otpCache, now, users[u].email, otpHist[v].code, pw)
                    = "NotFoundException"

\* the code of user u's latest forgotPassword is spent: a resetPassword that
\* returned consumed it, or 300 seconds have passed since it was issued
OtpSpent(u) ==
    /\ otpHist[u] # NoOtp
    /\ otpHist[u].consumed \/ now >= otpHist[u].issuedAt + OtpTtl

\* a resetPassword for u with its spent code fails with NotFoundException and
\* leaves the store unchanged
SpentOtpRejected(u) ==
    \A pw \in NewPasswords :
        /\ ResetResult(users, otpCache, now, users[u].email, otpHist[u].code, pw)
               = "NotFoundException"
        /\ ResetStore(users, otpCache, now, users[u].email, otpHist[u].code, pw) = users

\* C2 (as claimed): right after forgotPassword, resetPassword with the
\* returned code succeeds; once the code is spent, resetPassword with it fails
\* with NotFoundException and leaves the password hash unchanged.
C2_OtpOnceAnyPassword ==
    /\ (last.op = "forgotPassword" /\ last.res = "ok") =>
            \A pw \in NewPasswords :
                ResetResult(users, otpCache, now, last.email, last.otp, pw) = "ok"
    /\ \A u \in 1..Len(users) : OtpSpent(u) => SpentOtpRejected(u)

\* C2 (amended): as C2, where the resetPassword right after forgotPassword
\* succeeds when the new password is not empty.
C2_OtpOnceNonEmptyPassword ==
    /\ (last.op = "forgotPassword" /\ last.res = "ok") =>
            \A pw \in NewPasswords \ {""} :
                /\ ResetResult(users, otpCache, now, last.email, last.otp, pw) = "ok"
                /\ ResetStore(users, otpCache, now, last.email, last.otp, pw)[last.uid].password
                       = hashPassword(pw)
    /\ \A u \in 1..Len(users) : OtpSpent(u) => SpentOtpRejected(u)

C2_Witness ==
    /\ last.op = "resetPassword"
    /\ last.res = "NotFoundException"
    /\ last.uid \in 1..Len(users)
    /\ otpHist[last.uid].consumed
    /\ last.otp = otpHist[last.uid].code
    /\ now < otpHist[last.uid].issuedAt + OtpTtl
    /\ TotpCheck(otpHist[last.uid].code, now)

\* C9 (as claimed): once two concurrent signin calls of a user have both
\* completed, exactly one of the two issued refresh tokens is accepted, the
\* one whose hash was written last.
C9_LastWriterOnly ==
    (\A p \in Procs : pc[p] = "done") =>
        \A p \in Procs :
            RefreshResult(users, ptok[p]) =
                IF p = lastWriter THEN "ok" ELSE "NotFoundException"

\* C10 (as claimed): a markInvoiceAsPaid on an invoice that is already paid
\* leaves the wallet balance unchanged; one that takes the invoice from not
\* paid to paid adds the amount; one whose payment verification does not
\* report success changes neither the invoice, the transaction nor the wallet.
C10_CreditedOnce ==
    [][(last'.op = "markInvoiceAsPaid" /\ last'.uid \in 1..Len(invoices)) =>
        IF invoices[last'.uid].status = "paid" THEN wallet' = wallet
        ELSE IF last'.res = "ok"
             THEN /\ invoices'[last'.uid].status = "paid"
                  /\ wallet' = wallet + VerifiedAmount(invoices, last'.uid)
        ELSE /\ invoices' = invoices
             /\ transactions' = transactions
             /\ wallet' = wallet]_vars
====
